---- MODULE Spec2Model ----
(***************************************************************************)
(* Model of src/dev/check.rs: the `dev check` pipeline of rustlings.       *)
(*                                                                         *)
(* Strings are sequences of characters, a character is a one-letter TLA+   *)
(* string ("U+00E9" stands for the single character e-acute).  An          *)
(* Option<T> is a set with at most one element.  Every Result is a record  *)
(* [kind, name, dir, ch]: kind "Ok", "None" (not returned yet) or the kind *)
(* of the error, the other fields what the error message interpolates.     *)
(***************************************************************************)
EXTENDS Integers, Sequences, FiniteSets, TLC

VARIABLES
    pc,               \* position of the main thread inside check()
    phases,           \* the phases check() has started, in order
    result,           \* what check() returned
    returned,         \* what the phases that have ended returned, in order
    require_solutions,\* the argument of check()
    info_file,        \* the parsed manifest: [format_version, exercises]
    info_i,           \* check_info_file_exercises: index of the next record
    names,            \* check_info_file_exercises: HashSet of names seen
    paths,            \* check_info_file_exercises: HashSet of exercise paths
    file_buf,         \* check_info_file_exercises: markers held by the buffer
    file_reads,       \* the file contents read so far, by record index
    info_result,      \* what check_info_file_exercises returned
    ex_i,             \* check_exercises_unsolved: index of the next record of the spawn loop
    ex_task,          \* check_exercises_unsolved: position of each record's task
    ex_out,           \* what run_exercise returned to each task
    ex_runs,          \* how many times run_exercise was invoked for each record
    error_occurred,   \* the AtomicBool of check_exercises_unsolved
    stderr,           \* the writes made to stderr, in order
    stderr_lock,      \* the task holding the lock of stderr, 0 when it is free
    unsolved_result,  \* what check_exercises_unsolved returned
    sol_i,            \* check_solutions: index of the next record of the spawn loop
    sol_task,         \* check_solutions: position or outcome of each record's task
    sol_exists,       \* what Path::exists answered to each task
    sol_runs,         \* how many times run_solution was invoked for each record
    join_i,           \* check_solutions: index of the next handle of the join loop
    joined,           \* the handles the join loop has joined
    sol_paths,        \* check_solutions: HashSet of the paths of the successful solutions
    fmt_cmd,          \* the paths given to rustfmt as arguments, in order
    fmt_status,       \* what running rustfmt gave
    files_task,       \* position of the task of line 289
    files_result,     \* what check_unexpected_files("solutions", ..) returned in it
    finished_first,   \* which of rustfmt and the task of line 289 ended first
    closure_result,   \* what the closure given to thread::scope returned
    solutions_result, \* what check_solutions returned
    dir_read,         \* check_unexpected_files: the directory its last call read, if any
    dir_allowed,      \* check_unexpected_files: allowed_rust_files of that call
    dir_result,       \* check_unexpected_files: what that call returned
    hung              \* the invocations of a runner that never return

infoVars == <<info_i, names, paths, file_buf, file_reads, info_result>>
mainVars == <<pc, phases, result, returned, require_solutions, info_file>>
exVars == <<ex_i, ex_task, ex_out, ex_runs, error_occurred, unsolved_result>>
errVars == <<stderr, stderr_lock>>
solVars == <<sol_i, sol_task, sol_exists, sol_runs, join_i, joined, sol_paths, fmt_cmd,
             fmt_status, files_task, files_result, finished_first, closure_result,
             solutions_result>>
dirVars == <<dir_read, dir_allowed, dir_result>>
vars == <<mainVars, infoVars, exVars, errVars, solVars, dirVars, hung>>

(***************************************************************************)
(* Bounds.                                                                 *)
(***************************************************************************)
MaxInfoRecords == 2
MaxRecords == 3
MaxLiveRecords == 2

\* crate::CURRENT_FORMAT_VERSION, imported on line 17.
CURRENT_FORMAT_VERSION == 1

(***************************************************************************)
(* Results.                                                                *)
(***************************************************************************)
NoName == <<>>
NoDir == {}
Res(kind, name, dir, ch) == [kind |-> kind, name |-> name, dir |-> dir, ch |-> ch]
NoResult == Res("None", NoName, NoDir, "")
OkResult == Res("Ok", NoName, NoDir, "")
IsErr(r) == r.kind \notin {"None", "Ok"}

(***************************************************************************)
(* Characters: the table of char::is_alphanumeric / char::is_whitespace    *)
(* over the characters the model uses.  is_alphanumeric is the Unicode     *)
(* property, so it holds of the non-ASCII letter U+00E9.                   *)
(***************************************************************************)
is_alphanumeric(c) == c \in {"a", "A", "b", "c", "d", "h", "5", "U+00E9"}
is_whitespace(c) == c \in {" "}

Min(S) == CHOOSE x \in S : \A y \in S : x <= y

forbidden_char_no_underscore(input) ==
    LET bad == {i \in 1..Len(input) : ~is_alphanumeric(input[i])}
    IN  IF bad = {} THEN {} ELSE {input[Min(bad)]}

\* input.chars().find(|c| !c.is_alphanumeric() && *c != '_')
forbidden_char(input) ==
    LET bad == {i \in 1..Len(input) : ~is_alphanumeric(input[i]) /\ input[i] # "_"}
    IN  IF bad = {} THEN {} ELSE {input[Min(bad)]}

\* str::trim: the input without its leading and trailing whitespace.
trim(s) ==
    LET keep == {i \in 1..Len(s) : ~is_whitespace(s[i])}
    IN  IF keep = {} THEN <<>>
        ELSE SubSeq(s, Min(keep), CHOOSE x \in keep : \A y \in keep : y <= x)

is_empty(s) == Len(s) = 0

(***************************************************************************)
(* ExerciseInfo and the paths derived from it.                             *)
(***************************************************************************)
ExerciseInfo(name, dir, hint, test, skip) ==
    [name |-> name, dir |-> dir, hint |-> hint, test |-> test,
     skip_check_unsolved |-> skip]

\* ExerciseInfo::path(): exercises/<dir>/<name>.rs, or exercises/<name>.rs.
path(exercise_info) ==
    [root |-> "exercises", dir |-> exercise_info.dir, name |-> exercise_info.name]

\* ExerciseInfo::sol_path(): solutions/<dir>/<name>.rs, or solutions/<name>.rs.
sol_path(exercise_info) ==
    [root |-> "solutions", dir |-> exercise_info.dir, name |-> exercise_info.name]

(***************************************************************************)
(* check_info_file_exercises.                                              *)
(***************************************************************************)
\* What a file holds: can it be opened and read, and which of the three
\* literal markers ("fn main()", "// TODO", "#[test]") its text contains.
FileContents ==
    [open : {TRUE}, read : {TRUE}, markers : SUBSET {"fn main()", "// TODO", "#[test]"}]
        \cup {[open |-> FALSE, read |-> FALSE, markers |-> {}],
              [open |-> TRUE, read |-> FALSE, markers |-> {}]}

\* HashSet<&str>::insert answers whether the value was new: names are
\* compared as exact strings.
names_insert_ignore_case(set, name) ==
    LET lower(c) == IF c = "A" THEN "a" ELSE c
        fold(s) == [i \in 1..Len(s) |-> lower(s[i])]
    IN  \A n \in set : fold(n) # fold(name)

names_insert(set, name) == name \notin set

\* Lines 55-78: the checks of one record that read the manifest only.
NamingError_hint_before_dir(exercise_info, seen) ==
    LET name == exercise_info.name
        dir == exercise_info.dir
    IN  IF is_empty(name) THEN Res("EmptyName", NoName, NoDir, "")
        ELSE IF forbidden_char(name) # {}
            THEN Res("NameChar", name, NoDir, CHOOSE c \in forbidden_char(name) : TRUE)
        ELSE IF is_empty(trim(exercise_info.hint)) THEN Res("EmptyHint", name, NoDir, "")
        ELSE IF dir # {} /\ \E d \in dir : is_empty(d)
            THEN Res("EmptyDir", name, NoDir, "")
        ELSE IF dir # {} /\ \E d \in dir : forbidden_char(d) # {}
            THEN Res("DirChar", NoName, dir,
                     CHOOSE c \in forbidden_char(CHOOSE d \in dir : TRUE) : TRUE)
        ELSE IF ~names_insert(seen, name) THEN Res("DuplicateName", name, NoDir, "")
        ELSE OkResult

NamingError(exercise_info, seen) ==
    LET name == exercise_info.name
        dir == exercise_info.dir
    IN  IF is_empty(name) THEN Res("EmptyName", NoName, NoDir, "")
        ELSE IF forbidden_char(name) # {}
            THEN Res("NameChar", name, NoDir, CHOOSE c \in forbidden_char(name) : TRUE)
        ELSE IF dir # {} /\ \E d \in dir : is_empty(d)
            THEN Res("EmptyDir", name, NoDir, "")
        ELSE IF dir # {} /\ \E d \in dir : forbidden_char(d) # {}
            THEN Res("DirChar", NoName, dir,
                     CHOOSE c \in forbidden_char(CHOOSE d \in dir : TRUE) : TRUE)
        ELSE IF is_empty(trim(exercise_info.hint)) THEN Res("EmptyHint", name, NoDir, "")
        ELSE IF ~names_insert(seen, name) THEN Res("DuplicateName", name, NoDir, "")
        ELSE OkResult

\* Lines 82-99: the checks of one record on the text now in file_buf.
ContentError(exercise_info, file, buf) ==
    LET name == exercise_info.name
        dir == exercise_info.dir
    IN  IF ~file.open THEN Res("OpenFailed", name, dir, "")
        ELSE IF ~file.read THEN Res("ReadFailed", name, dir, "")
        ELSE IF "fn main()" \notin buf THEN Res("MissingMain", name, dir, "")
        ELSE IF "// TODO" \notin buf THEN Res("MissingTodo", name, dir, "")
        ELSE IF ~exercise_info.test /\ "#[test]" \in buf
            THEN Res("UnexpectedTest", name, dir, "")
        ELSE OkResult

\* Line 101: file_buf.clear().
file_buf_keep(buf) == buf

file_buf_clear(buf) == {}

\* One iteration of the loop of lines 54-104 over record info_i; the file
\* the record names holds whatever the file system holds (file).
InfoRecord ==
    /\ pc = "info"
    /\ info_result = NoResult
    /\ info_i <= Len(info_file.exercises)
    /\ LET exercise_info == info_file.exercises[info_i]
           naming == NamingError(exercise_info, names)
       IN  IF IsErr(naming)
           THEN /\ info_result' = naming
                /\ UNCHANGED <<info_i, names, paths, file_buf, file_reads>>
           ELSE \E file \in FileContents :
                LET buf == file_buf \cup file.markers
                    content == ContentError(exercise_info, file, buf)
                IN  /\ names' = names \cup {exercise_info.name}
                    /\ file_reads' = file_reads @@ (info_i :> file)
                    /\ IF IsErr(content)
                       THEN /\ info_result' = content
                            /\ file_buf' = buf
                            /\ UNCHANGED <<info_i, paths>>
                       ELSE /\ file_buf' = file_buf_clear(buf)
                            /\ paths' = paths \cup {path(exercise_info)}
                            /\ info_i' = info_i + 1
                            /\ UNCHANGED info_result
    /\ UNCHANGED <<dirVars, hung, mainVars, exVars, errVars, solVars>>

\* Line 106: Ok(paths) once the loop is over.
InfoLoopEnd ==
    /\ pc = "info"
    /\ info_result = NoResult
    /\ info_i > Len(info_file.exercises)
    /\ info_result' = OkResult
    /\ UNCHANGED <<dirVars, hung, mainVars, info_i, names, paths, file_buf, file_reads, exVars, errVars,
                   solVars>>

(***************************************************************************)
(* Manifests given to check_info_file_exercises on its own.                *)
(***************************************************************************)
InfoNames == {<<>>, <<"a">>, <<"A">>, <<"b", "_", "5">>, <<"a", "-">>, <<"U+00E9">>}
InfoDirs == {{}, {<<>>}, {<<"d">>}, {<<"d", " ">>}}
InfoHints == {<<"h">>, <<" ">>}

\* Every combination of these; test is read on line 97 only, after the
\* record has passed the checks on name, dir and hint, so it is varied for
\* the records that can pass them.
InfoRecords ==
    {e \in {ExerciseInfo(n, d, h, t, FALSE) :
                n \in InfoNames, d \in InfoDirs, h \in InfoHints, t \in BOOLEAN} :
        e.test => ~IsErr(NamingError(e, {}))}

SeqsUpTo(S, n) == UNION {[1..k -> S] : k \in 1..n}

InitInfoVars ==
    /\ info_i = 1
    /\ names = {}
    /\ paths = {}
    /\ file_buf = {}
    /\ file_reads = <<>>
    /\ info_result = NoResult

InitExVars ==
    /\ ex_i = 1
    /\ ex_task = <<>>
    /\ ex_out = <<>>
    /\ ex_runs = <<>>
    /\ error_occurred = FALSE
    /\ unsolved_result = NoResult
    /\ stderr = <<>>
    /\ stderr_lock = 0

InitSolVars ==
    /\ sol_i = 1
    /\ sol_task = <<>>
    /\ sol_exists = <<>>
    /\ sol_runs = <<>>
    /\ join_i = 1
    /\ joined = {}
    /\ sol_paths = {}
    /\ fmt_cmd = <<>>
    /\ fmt_status = "None"
    /\ files_task = "none"
    /\ files_result = NoResult
    /\ finished_first = "none"
    /\ closure_result = NoResult
    /\ solutions_result = NoResult

InitDirVars ==
    /\ dir_read = {}
    /\ dir_allowed = {}
    /\ dir_result = NoResult
    /\ hung = {}

InitInfo ==
    /\ pc = "info"
    /\ phases = <<>>
    /\ result = NoResult
    /\ returned = <<>>
    /\ require_solutions = FALSE
    /\ info_file \in [format_version : {CURRENT_FORMAT_VERSION},
                      exercises : SeqsUpTo(InfoRecords, MaxInfoRecords)]
    /\ InitInfoVars
    /\ InitExVars
    /\ InitSolVars
    /\ InitDirVars

NextInfo == InfoRecord \/ InfoLoopEnd

SpecInfo == InitInfo /\ [][NextInfo]_vars

(***************************************************************************)
(* check_unexpected_files.  A directory is [readable, entries]; an entry   *)
(* is [is_file, path, readable, entries], path as ExerciseInfo::path()     *)
(* builds it.  read_dir yields the entries in no particular order, so the  *)
(* function may meet any offending entry first: the operator is the set of *)
(* results it can return.                                                  *)
(***************************************************************************)
README == <<"README.md">>

check_unexpected_files_top_level(dir, allowed_rust_files) ==
    LET found == {Res("UnexpectedFile", e.path.name, e.path.dir, "") :
                    e \in {x \in dir.entries : /\ x.is_file
                                               /\ x.path.name # README
                                               /\ x.path \notin allowed_rust_files}}
    IN  IF ~dir.readable THEN {Res("OpenDirFailed", NoName, NoDir, "")}
        ELSE IF found = {} THEN {OkResult}
        ELSE found

check_unexpected_files(dir, allowed_rust_files) ==
    LET unexpected(entries) ==
            {Res("UnexpectedFile", e.path.name, e.path.dir, "") :
                e \in {x \in entries : /\ x.is_file
                                       /\ x.path.name # README
                                       /\ x.path \notin allowed_rust_files}}
        nested(d) ==
            IF ~d.readable THEN {Res("OpenSubdirFailed", d.path.name, d.path.dir, "")}
            ELSE {Res("UnexpectedNesting", e.path.name, e.path.dir, "") :
                    e \in {x \in d.entries : ~x.is_file}}
                 \cup unexpected(d.entries)
        found == unexpected(dir.entries)
                 \cup UNION {nested(d) : d \in {x \in dir.entries : ~x.is_file}}
    IN  IF ~dir.readable THEN {Res("OpenDirFailed", NoName, NoDir, "")}
        ELSE IF found = {} THEN {OkResult}
        ELSE found

File(p) == [is_file |-> TRUE, path |-> p, readable |-> TRUE, entries |-> {}]
Subdir(root, d, entries) ==
    [is_file |-> FALSE, path |-> [root |-> root, dir |-> {}, name |-> d],
     readable |-> TRUE, entries |-> entries]

\* The directory that holds exactly the files of pathset, grouped by dir,
\* and a README.md.
ExpectedEntries(root, pathset) ==
    {File([root |-> root, dir |-> {}, name |-> README])}
        \cup {File(p) : p \in {q \in pathset : q.dir = {}}}
        \cup {Subdir(root, d, {File(p) : p \in {q \in pathset : q.dir = {d}}}) :
                d \in UNION {q.dir : q \in pathset}}

\* The directories the pipeline may find: the expected one, one with an
\* untracked file, one with a second level of nesting, one it cannot open.
Directories(root, pathset) ==
    LET expected == ExpectedEntries(root, pathset)
        stray == File([root |-> root, dir |-> {}, name |-> <<"x">>])
        deep == Subdir(root, <<"d">>,
                       {[is_file |-> FALSE,
                         path |-> [root |-> root, dir |-> {<<"d">>}, name |-> <<"x">>],
                         readable |-> TRUE, entries |-> {}]})
    IN  {[readable |-> TRUE, entries |-> expected],
         [readable |-> TRUE, entries |-> expected \cup {stray}],
         [readable |-> TRUE, entries |-> expected \cup {deep}],
         [readable |-> FALSE, entries |-> {}]}

(***************************************************************************)
(* check(): the sequential phases.                                         *)
(***************************************************************************)
NoInfoFile == [format_version |-> 0, exercises |-> <<>>]
N == Len(info_file.exercises)

\* The manifests InfoFile::parse() may produce for the pipeline: record i
\* is named after its position, or "a" again.
PositionName(i) ==
    IF i = 1 THEN <<"a">> ELSE IF i = 2 THEN <<"b">> ELSE IF i = 3 THEN <<"c", "5">>
    ELSE [k \in 1..(i - 2) |-> "d"]

Manifests ==
    UNION {{m \in [1..k -> {ExerciseInfo(n, {}, <<"h">>, FALSE, s) :
                                n \in {PositionName(i) : i \in 1..k}, s \in BOOLEAN}] :
                \A i \in 1..k : m[i].name \in {PositionName(i), <<"a">>}} :
           k \in 1..MaxRecords}

InfoFiles ==
    [format_version : {CURRENT_FORMAT_VERSION - 1, CURRENT_FORMAT_VERSION,
                       CURRENT_FORMAT_VERSION + 1},
     exercises : Manifests]

\* The ? of lines 304-321: the error of a phase is returned by check().
propagates_unless_files(r) ==
    IsErr(r) /\ r.kind \notin {"UnexpectedFile", "UnexpectedNesting"}

propagates(r) == IsErr(r)

Fail(r) ==
    /\ pc' = "done"
    /\ result' = r
    /\ returned' = Append(returned, r)
    /\ UNCHANGED phases

Goto(p, r) ==
    /\ pc' = p
    /\ phases' = Append(phases, p)
    /\ returned' = Append(returned, r)
    /\ UNCHANGED result

\* A phase has returned r: check() returns r if it is an error, and goes
\* on to the phase next if it is not.
Try(r, next) == IF propagates(r) THEN Fail(r) ELSE Goto(next, r)

\* Line 304: InfoFile::parse()?
Parse ==
    /\ pc = "parse"
    /\ \/ /\ Fail(Res("ParseError", NoName, NoDir, ""))
          /\ UNCHANGED <<info_file, ex_task, ex_out, ex_runs, sol_task, sol_exists, sol_runs>>
       \/ \E parsed \in InfoFiles :
            /\ info_file' = parsed
            /\ ex_task' = [i \in 1..Len(parsed.exercises) |-> "none"]
            /\ ex_out' = [i \in 1..Len(parsed.exercises) |-> "None"]
            /\ ex_runs' = [i \in 1..Len(parsed.exercises) |-> 0]
            /\ sol_task' = [i \in 1..Len(parsed.exercises) |-> "none"]
            /\ sol_exists' = [i \in 1..Len(parsed.exercises) |-> {}]
            /\ sol_runs' = [i \in 1..Len(parsed.exercises) |-> 0]
            /\ Goto("cargo_toml", OkResult)
    /\ UNCHANGED <<dirVars, hung, require_solutions, infoVars, ex_i, error_occurred, unsolved_result,
                   errVars, sol_i, join_i, joined, sol_paths, fmt_cmd, fmt_status,
                   files_task, files_result, finished_first, closure_result,
                   solutions_result>>

\* Lines 26-46: bins_start_end_ind finds the markers or fails; the bins
\* between them are the regenerated ones or not.
check_cargo_toml(markers, same) ==
    IF ~markers THEN Res("BinsMarkers", NoName, NoDir, "")
    ELSE IF ~same THEN Res("CargoTomlOutdated", NoName, NoDir, "")
    ELSE OkResult

\* Lines 306-317: a debug build checks the embedded dev-Cargo.toml, a
\* release build reads Cargo.toml first.
CheckCargoToml ==
    /\ pc = "cargo_toml"
    /\ \E debug_assertions, readable, markers, same \in BOOLEAN :
        LET r == IF ~debug_assertions /\ ~readable
                 THEN Res("CargoTomlRead", NoName, NoDir, "")
                 ELSE check_cargo_toml(markers, same)
        IN  Try(r, "cmd_runner")
    /\ UNCHANGED <<dirVars, hung, require_solutions, info_file, infoVars, exVars, errVars, solVars>>

\* Line 319: CmdRunner::build()?
CmdRunnerBuild ==
    /\ pc = "cmd_runner"
    /\ \E r \in {Res("CmdRunnerBuild", NoName, NoDir, ""), OkResult} :
            Try(r, "format_version")
    /\ UNCHANGED <<dirVars, hung, require_solutions, info_file, infoVars, exVars, errVars, solVars>>

\* Lines 202-206.
format_version_check(format_version) ==
    IF format_version < CURRENT_FORMAT_VERSION THEN Res("FormatTooOld", NoName, NoDir, "")
    ELSE IF format_version > CURRENT_FORMAT_VERSION
        THEN Res("FormatTooNew", NoName, NoDir, "")
    ELSE OkResult

FormatVersion ==
    /\ pc = "format_version"
    /\ LET r == format_version_check(info_file.format_version)
       IN  Try(r, "info")
    /\ UNCHANGED <<dirVars, hung, require_solutions, info_file, infoVars, exVars, errVars, solVars>>

\* Line 208: check_info_file_exercises(info_file)?
CheckInfoFileExercisesReturn ==
    /\ pc = "info"
    /\ info_result # NoResult
    /\ Try(info_result, "exercises_files")
    /\ UNCHANGED <<dirVars, hung, require_solutions, info_file, infoVars, exVars, errVars, solVars>>

\* Line 209: check_unexpected_files("exercises", &info_file_paths)?
ExercisesFiles ==
    /\ pc = "exercises_files"
    /\ \E dir \in Directories("exercises", paths) :
        \E r \in check_unexpected_files(dir, paths) :
            /\ Try(r, "unsolved")
            /\ dir_read' = {dir}
            /\ dir_allowed' = paths
            /\ dir_result' = r
    /\ UNCHANGED <<hung, require_solutions, info_file, infoVars, exVars, errVars, solVars>>

(***************************************************************************)
(* check_exercises_unsolved.                                               *)
(***************************************************************************)
RunResults == {"OkTrue", "OkFalse", "Err"}
ExFinished == {"none", "done"}

\* Lines 171-173.
skips_nothing(exercise_info) == FALSE

skips(exercise_info) == exercise_info.skip_check_unsolved

\* Lines 170-175: the spawn loop, one record at a time.
ExSkip ==
    /\ pc = "unsolved"
    /\ ex_i <= N
    /\ skips(info_file.exercises[ex_i])
    /\ ex_i' = ex_i + 1
    /\ UNCHANGED <<dirVars, hung, mainVars, infoVars, ex_task, ex_out, ex_runs, error_occurred,
                   unsolved_result, errVars, solVars>>

ExSpawn ==
    /\ pc = "unsolved"
    /\ ex_i <= N
    /\ ~skips(info_file.exercises[ex_i])
    /\ ex_task' = [ex_task EXCEPT ![ex_i] = "spawned"]
    /\ ex_i' = ex_i + 1
    /\ UNCHANGED <<dirVars, hung, mainVars, infoVars, ex_out, ex_runs, error_occurred,
                   unsolved_result, errVars, solVars>>

\* Line 185: the task calls run_exercise.
ExInvoke(i) ==
    /\ ex_task[i] = "spawned"
    /\ ex_task' = [ex_task EXCEPT ![i] = "running"]
    /\ ex_runs' = [ex_runs EXCEPT ![i] = @ + 1]
    /\ UNCHANGED <<dirVars, hung, mainVars, infoVars, ex_i, ex_out, error_occurred, unsolved_result,
                   errVars, solVars>>

\* Lines 185-189: run_exercise returns; Ok(false) ends the task, the other
\* two results call the closure error.
after_run_errors_only(r) == IF r = "Err" THEN "error" ELSE "done"

after_run(r) == IF r = "OkFalse" THEN "done" ELSE "error"

\* run_exercise has no timeout: an invocation in hung never returns.
Exercise(i) == <<"exercise", i>>
Solution(i) == <<"solution", i>>

ExReturn(i) ==
    /\ ex_task[i] = "running"
    /\ Exercise(i) \notin hung
    /\ \E r \in RunResults :
        /\ ex_out' = [ex_out EXCEPT ![i] = r]
        /\ ex_task' = [ex_task EXCEPT ![i] = after_run(r)]
    /\ UNCHANGED <<dirVars, hung, mainVars, infoVars, ex_i, ex_runs, error_occurred, unsolved_result,
                   errVars, solVars>>

\* Line 185: the child process of run_exercise never ends, and nothing
\* bounds the wait for it.
ExHang(i) ==
    /\ ex_task[i] = "running"
    /\ Exercise(i) \notin hung
    /\ hung' = hung \cup {Exercise(i)}
    /\ UNCHANGED <<mainVars, infoVars, exVars, errVars, solVars, dirVars>>

\* Line 177: io::stderr().lock() blocks until the lock is free.
lock_always_free(lock) == TRUE

lock_free(lock) == lock = 0

ExLock(i) ==
    /\ ex_task[i] = "error"
    /\ lock_free(stderr_lock)
    /\ stderr_lock' = i
    /\ ex_task' = [ex_task EXCEPT ![i] = "write1"]
    /\ UNCHANGED <<dirVars, hung, mainVars, infoVars, ex_i, ex_out, ex_runs, error_occurred,
                   unsolved_result, stderr, solVars>>

Written(by, part, text, name) == [by |-> by, part |-> part, text |-> text, name |-> name]

\* Lines 178-181: the four write_all calls.
ExWrite(i) ==
    /\ ex_task[i] \in {"write1", "write2", "write3", "write4"}
    /\ LET name == info_file.exercises[i].name
           message == IF ex_out[i] = "OkTrue" THEN "Already solved!" ELSE "e.to_string()"
       IN  CASE ex_task[i] = "write1" ->
                    /\ stderr' = Append(stderr, Written(i, "message", message, NoName))
                    /\ ex_task' = [ex_task EXCEPT ![i] = "write2"]
             [] ex_task[i] = "write2" ->
                    /\ stderr' = Append(stderr, Written(i, "problem",
                                            "\nProblem with the exercise ", NoName))
                    /\ ex_task' = [ex_task EXCEPT ![i] = "write3"]
             [] ex_task[i] = "write3" ->
                    /\ stderr' = Append(stderr, Written(i, "name", "", name))
                    /\ ex_task' = [ex_task EXCEPT ![i] = "write4"]
             [] ex_task[i] = "write4" ->
                    /\ stderr' = Append(stderr, Written(i, "separator", "SEPARATOR", NoName))
                    /\ ex_task' = [ex_task EXCEPT ![i] = "store"]
    /\ UNCHANGED <<dirVars, hung, mainVars, infoVars, ex_i, ex_out, ex_runs, error_occurred,
                   unsolved_result, stderr_lock, solVars>>

\* Lines 182-183: the store, then the closure ends and drops the lock guard.
ExStore(i) ==
    /\ ex_task[i] = "store"
    /\ error_occurred' = TRUE
    /\ stderr_lock' = 0
    /\ ex_task' = [ex_task EXCEPT ![i] = "done"]
    /\ UNCHANGED <<dirVars, hung, mainVars, infoVars, ex_i, ex_out, ex_runs, unsolved_result, stderr, solVars>>

\* thread::scope returns once its closure has returned and every thread
\* spawned in it has finished.
scope_exits_early(closure_done, threads_running) == closure_done

scope_exits(closure_done, threads_running) == closure_done /\ ~threads_running

\* Lines 194-198: the verdict is the flag.
unsolved_verdict(flag) ==
    IF flag THEN Res("Unsolved", NoName, NoDir, "") ELSE OkResult

\* Lines 192-198 and 211, 320: the scope ends, the flag is loaded and
\* check_exercises_unsolved returns to check_exercises, which returns it.
CheckExercisesUnsolvedReturn ==
    /\ pc = "unsolved"
    /\ scope_exits(ex_i > N, \E i \in 1..N : ex_task[i] \notin ExFinished)
    /\ unsolved_result' = unsolved_verdict(error_occurred)
    /\ Try(unsolved_result', "solutions")
    /\ UNCHANGED <<dirVars, hung, require_solutions, info_file, infoVars, ex_i, ex_task, ex_out, ex_runs,
                   error_occurred, errVars, solVars>>

(***************************************************************************)
(* check_solutions.                                                        *)
(***************************************************************************)
SolutionCheck == {"Success", "MissingRequired", "MissingOptional", "RunFailure", "Err"}
\* How a task can end: with a SolutionCheck, or by a panic of run_solution,
\* which handle.join() reports as Err(_) (line 283).
SolEnded == SolutionCheck \cup {"Panic"}
SolFailed == {"MissingRequired", "RunFailure", "Err", "Panic"}

\* Lines 229-251: the spawn loop gives every record a task.
spawns_solution_unless_skipped(exercise_info) == ~exercise_info.skip_check_unsolved

spawns_solution(exercise_info) == TRUE

SolSpawn ==
    /\ pc = "solutions"
    /\ sol_i <= N
    /\ sol_task' = [sol_task EXCEPT ![sol_i] =
                        IF spawns_solution(info_file.exercises[sol_i])
                        THEN "NotStarted" ELSE @]
    /\ sol_i' = sol_i + 1
    /\ UNCHANGED <<dirVars, hung, mainVars, infoVars, exVars, errVars, sol_exists, sol_runs, join_i,
                   joined, sol_paths, fmt_cmd, fmt_status, files_task, files_result,
                   finished_first, closure_result, solutions_result>>

SolSpawnEnd ==
    /\ pc = "solutions"
    /\ sol_i > N
    /\ pc' = "solutions_join"
    /\ UNCHANGED <<dirVars, hung, phases, result, returned, require_solutions, info_file, infoVars, exVars,
                   errVars, solVars>>

\* Lines 236-240.
missing_swapped(require) == IF require THEN "MissingOptional" ELSE "MissingRequired"

missing(require) == IF require THEN "MissingRequired" ELSE "MissingOptional"

\* Lines 234-244: the task looks for the solution file; if it is there,
\* it calls run_solution.
SolStart(i) ==
    /\ sol_task[i] = "NotStarted"
    /\ \E exists \in BOOLEAN :
        /\ sol_exists' = [sol_exists EXCEPT ![i] = {exists}]
        /\ IF exists
           THEN /\ sol_task' = [sol_task EXCEPT ![i] = "Running"]
                /\ sol_runs' = [sol_runs EXCEPT ![i] = @ + 1]
           ELSE /\ sol_task' = [sol_task EXCEPT ![i] = missing(require_solutions)]
                /\ UNCHANGED sol_runs
    /\ UNCHANGED <<dirVars, hung, mainVars, infoVars, exVars, errVars, sol_i, join_i, joined, sol_paths,
                   fmt_cmd, fmt_status, files_task, files_result, finished_first,
                   closure_result, solutions_result>>

\* Lines 244-248: run_solution returns, or panics.
SolReturn(i) ==
    /\ sol_task[i] = "Running"
    /\ Solution(i) \notin hung
    /\ \E r \in {"Success", "RunFailure", "Err", "Panic"} :
        sol_task' = [sol_task EXCEPT ![i] = r]
    /\ UNCHANGED <<dirVars, hung, mainVars, infoVars, exVars, errVars, sol_i, sol_exists, sol_runs,
                   join_i, joined, sol_paths, fmt_cmd, fmt_status, files_task,
                   files_result, finished_first, closure_result, solutions_result>>

\* Line 244: the child process of run_solution never ends.
SolHang(i) ==
    /\ sol_task[i] = "Running"
    /\ Solution(i) \notin hung
    /\ hung' = hung \cup {Solution(i)}
    /\ UNCHANGED <<mainVars, infoVars, exVars, errVars, solVars, dirVars>>

\* Lines 270-273: the arm of the join loop that collects a solution path.
is_success_or_missing(outcome) == outcome \in {"Success", "MissingOptional"}

is_success(outcome) == outcome = "Success"

\* Lines 274-285: the error the join loop returns for a failed outcome.
SolError(outcome, exercise_name) ==
    IF outcome = "MissingRequired" THEN Res("SolutionMissing", exercise_name, NoDir, "")
    ELSE IF outcome = "RunFailure" THEN Res("SolutionRunFailed", exercise_name, NoDir, "")
    ELSE IF outcome = "Err" THEN Res("RunSolutionErr", exercise_name, NoDir, "")
    ELSE Res("SolutionPanic", exercise_name, NoDir, "")

\* Lines 263-287: one iteration of the join loop; handle.join() blocks
\* until the task has ended.
SolJoin ==
    /\ pc = "solutions_join"
    /\ join_i <= N
    /\ sol_task[join_i] \in SolEnded
    /\ joined' = joined \cup {join_i}
    /\ LET exercise_info == info_file.exercises[join_i]
           outcome == sol_task[join_i]
       IN  IF outcome \in SolFailed
           THEN /\ closure_result' = SolError(outcome, exercise_info.name)
                /\ pc' = "solutions_exit"
                /\ stderr' = IF outcome = "RunFailure"
                             THEN Append(stderr, Written(0, "output", "output",
                                                         exercise_info.name))
                             ELSE stderr
                /\ UNCHANGED <<join_i, sol_paths, fmt_cmd>>
           ELSE /\ join_i' = join_i + 1
                /\ IF is_success(outcome)
                   THEN /\ fmt_cmd' = Append(fmt_cmd, sol_path(exercise_info))
                        /\ sol_paths' = sol_paths \cup {sol_path(exercise_info)}
                   ELSE UNCHANGED <<fmt_cmd, sol_paths>>
                /\ UNCHANGED <<pc, closure_result, stderr>>
    /\ UNCHANGED <<dirVars, hung, phases, result, returned, require_solutions, info_file, infoVars, exVars,
                   stderr_lock, sol_i, sol_task, sol_exists, sol_runs, fmt_status,
                   files_task, files_result, finished_first, solutions_result>>

\* Line 289: the task that checks the solutions directory is spawned.
FilesSpawn ==
    /\ pc = "solutions_join"
    /\ join_i > N
    /\ files_task' = "running"
    /\ pc' = "fmt"
    /\ UNCHANGED <<dirVars, hung, phases, result, returned, require_solutions, info_file, infoVars, exVars,
                   errVars, sol_i, sol_task, sol_exists, sol_runs, join_i, joined,
                   sol_paths, fmt_cmd, fmt_status, files_result, finished_first,
                   closure_result, solutions_result>>

\* Line 289: check_unexpected_files("solutions", &sol_paths) returns in its
\* task, or panics (the unwraps of lines 123, 125, 145, 149).
FilesEnd ==
    /\ files_task = "running"
    /\ \E dir \in Directories("solutions", sol_paths) :
        \E r \in check_unexpected_files(dir, sol_paths)
                    \cup {Res("FilesPanic", NoName, NoDir, "")} :
            /\ files_result' = r
            /\ dir_read' = {dir}
            /\ dir_allowed' = sol_paths
            /\ dir_result' = r
    /\ files_task' = "done"
    /\ finished_first' = IF finished_first = "none" THEN "files" ELSE finished_first
    /\ UNCHANGED <<hung, mainVars, infoVars, exVars, errVars, sol_i, sol_task, sol_exists,
                   sol_runs, join_i, joined, sol_paths, fmt_cmd, fmt_status,
                   closure_result, solutions_result>>

\* Lines 291-297: rustfmt runs over the paths of fmt_cmd.
fmt_error(status) ==
    IF status = "FailedToRun" THEN Res("RustfmtFailedToRun", NoName, NoDir, "")
    ELSE IF status = "NotFormatted" THEN Res("NotFormatted", NoName, NoDir, "")
    ELSE OkResult

FmtStatus ==
    /\ pc = "fmt"
    /\ \E status \in {"Success", "NotFormatted", "FailedToRun"} :
        /\ fmt_status' = status
        /\ IF IsErr(fmt_error(status))
           THEN closure_result' = fmt_error(status) /\ pc' = "solutions_exit"
           ELSE pc' = "files_join" /\ UNCHANGED closure_result
    /\ finished_first' = IF finished_first = "none" THEN "fmt" ELSE finished_first
    /\ UNCHANGED <<dirVars, hung, phases, result, returned, require_solutions, info_file, infoVars, exVars,
                   errVars, sol_i, sol_task, sol_exists, sol_runs, join_i, joined,
                   sol_paths, fmt_cmd, files_task, files_result, solutions_result>>

\* Line 299: handle.join().unwrap() is the closure's value.
files_join_ignored(r) == OkResult

files_join(r) == r

FilesJoin ==
    /\ pc = "files_join"
    /\ files_task = "done"
    /\ closure_result' = files_join(files_result)
    /\ joined' = joined \cup {0}
    /\ pc' = "solutions_exit"
    /\ UNCHANGED <<dirVars, hung, phases, result, returned, require_solutions, info_file, infoVars, exVars,
                   errVars, sol_i, sol_task, sol_exists, sol_runs, join_i, sol_paths,
                   fmt_cmd, fmt_status, files_task, files_result, finished_first,
                   solutions_result>>

\* thread::scope: a panic of the closure is resumed; otherwise, if a thread
\* that nobody joined has panicked, the scope panics; otherwise the value
\* of the closure is returned.
scope_value(closure, unjoined_panic) ==
    IF closure.kind = "FilesPanic" THEN closure
    ELSE IF unjoined_panic THEN Res("ScopePanic", NoName, NoDir, "")
    ELSE closure

SolRunning == {"NotStarted", "Running"}

\* Lines 300-301 and 321-325: the scope ends, check_solutions returns and
\* check returns.
CheckSolutionsReturn ==
    /\ pc = "solutions_exit"
    /\ scope_exits(closure_result # NoResult,
                   (\E i \in 1..N : sol_task[i] \in SolRunning) \/ files_task = "running")
    /\ solutions_result' =
            scope_value(closure_result,
                        (\E i \in 1..N : sol_task[i] = "Panic" /\ i \notin joined)
                        \/ (files_result.kind = "FilesPanic" /\ 0 \notin joined))
    /\ IF propagates(solutions_result') THEN Fail(solutions_result')
       ELSE /\ pc' = "done"
            /\ result' = OkResult
            /\ returned' = Append(returned, solutions_result')
            /\ UNCHANGED phases
    /\ UNCHANGED <<dirVars, hung, require_solutions, info_file, infoVars, exVars, errVars, sol_i,
                   sol_task, sol_exists, sol_runs, join_i, joined, sol_paths, fmt_cmd,
                   fmt_status, files_task, files_result, finished_first, closure_result>>

Init ==
    /\ pc = "parse"
    /\ phases = <<"parse">>
    /\ result = NoResult
    /\ returned = <<>>
    /\ require_solutions \in BOOLEAN
    /\ info_file = NoInfoFile
    /\ InitInfoVars
    /\ InitExVars
    /\ InitSolVars
    /\ InitDirVars

Next ==
    \/ Parse
    \/ CheckCargoToml
    \/ CmdRunnerBuild
    \/ FormatVersion
    \/ InfoRecord
    \/ InfoLoopEnd
    \/ CheckInfoFileExercisesReturn
    \/ ExercisesFiles
    \/ ExSkip
    \/ ExSpawn
    \/ \E i \in 1..N : ExInvoke(i)
    \/ \E i \in 1..N : ExReturn(i)
    \/ \E i \in 1..N : ExLock(i)
    \/ \E i \in 1..N : ExWrite(i)
    \/ \E i \in 1..N : ExStore(i)
    \/ CheckExercisesUnsolvedReturn
    \/ SolSpawn
    \/ SolSpawnEnd
    \/ \E i \in 1..N : SolStart(i)
    \/ \E i \in 1..N : SolReturn(i)
    \/ SolJoin
    \/ FilesSpawn
    \/ FilesEnd
    \/ FmtStatus
    \/ FilesJoin
    \/ CheckSolutionsReturn

Spec == Init /\ [][Next]_vars

(***************************************************************************)
(* The pipeline with runners that may never return.  The threads are       *)
(* scheduled by the operating system, which lets every thread that can     *)
(* take a step take it eventually; no step of the pipeline undoes another, *)
(* so weak fairness of the next-state action says just that.  The         *)
(* manifests are those of up to MaxLiveRecords records.                    *)
(***************************************************************************)
NextLive ==
    \/ Parse /\ Len(info_file'.exercises) <= MaxLiveRecords
    \/ CheckCargoToml
    \/ CmdRunnerBuild
    \/ FormatVersion
    \/ InfoRecord
    \/ InfoLoopEnd
    \/ CheckInfoFileExercisesReturn
    \/ ExercisesFiles
    \/ ExSkip
    \/ ExSpawn
    \/ \E i \in 1..N : ExInvoke(i)
    \/ \E i \in 1..N : ExReturn(i)
    \/ \E i \in 1..N : ExLock(i)
    \/ \E i \in 1..N : ExWrite(i)
    \/ \E i \in 1..N : ExStore(i)
    \/ CheckExercisesUnsolvedReturn
    \/ SolSpawn
    \/ SolSpawnEnd
    \/ \E i \in 1..N : SolStart(i)
    \/ \E i \in 1..N : SolReturn(i)
    \/ SolJoin
    \/ FilesSpawn
    \/ FilesEnd
    \/ FmtStatus
    \/ FilesJoin
    \/ CheckSolutionsReturn
    \/ \E i \in 1..N : ExHang(i)
    \/ \E i \in 1..N : SolHang(i)

SpecLive == Init /\ [][NextLive]_vars /\ WF_vars(NextLive)

(***************************************************************************)
(* check_unexpected_files alone, over directory trees of up to two levels. *)
(***************************************************************************)
TreePath(dir, name) == [root |-> "exercises", dir |-> dir, name |-> name]

TreeSubdirs ==
    {[is_file |-> FALSE, path |-> TreePath({}, <<"d">>), readable |-> FALSE, entries |-> {}]}
    \cup {Subdir("exercises", <<"d">>, entries) :
            entries \in SUBSET ({File(TreePath({<<"d">>}, name)) :
                                    name \in {README, <<"b">>, <<"y">>}}
                                \cup {[is_file |-> FALSE,
                                       path |-> TreePath({<<"d">>}, <<"z">>),
                                       readable |-> TRUE, entries |-> {}]})}

Trees ==
    {[readable |-> FALSE, entries |-> {}]}
    \cup {[readable |-> TRUE, entries |-> files \cup subdirs] :
            files \in SUBSET {File(TreePath({}, name)) : name \in {README, <<"a">>, <<"x">>}},
            subdirs \in {{}} \cup {{d} : d \in TreeSubdirs}}

AllowedSets ==
    SUBSET {TreePath({}, <<"a">>), TreePath({<<"d">>}, <<"b">>)}

CheckUnexpectedFiles ==
    /\ pc = "files"
    /\ dir_read = {}
    /\ \E dir \in Trees, allowed_rust_files \in AllowedSets :
        \E r \in check_unexpected_files(dir, allowed_rust_files) :
            /\ dir_read' = {dir}
            /\ dir_allowed' = allowed_rust_files
            /\ dir_result' = r
    /\ UNCHANGED <<mainVars, infoVars, exVars, errVars, solVars, hung>>

InitFiles ==
    /\ pc = "files"
    /\ phases = <<>>
    /\ result = NoResult
    /\ returned = <<>>
    /\ require_solutions = FALSE
    /\ info_file = NoInfoFile
    /\ InitInfoVars
    /\ InitExVars
    /\ InitSolVars
    /\ InitDirVars

NextFiles == CheckUnexpectedFiles

SpecFiles == InitFiles /\ [][NextFiles]_vars

(***************************************************************************)
(* Properties.                                                             *)
(***************************************************************************)
Exercises == info_file.exercises
Records == 1..N
Last(seq) == seq[Len(seq)]
IsPrefix(a, b) == Len(a) <= Len(b) /\ SubSeq(b, 1, Len(a)) = a

PhaseOrder ==
    <<"parse", "cargo_toml", "cmd_runner", "format_version", "info", "exercises_files",
      "unsolved", "solutions">>

FilesErrors == {"UnexpectedFile", "UnexpectedNesting", "OpenDirFailed", "OpenSubdirFailed"}

\* The errors each phase can end with.
PhaseErrors(phase) ==
    CASE phase = "parse" -> {"ParseError"}
      [] phase = "cargo_toml" -> {"CargoTomlRead", "BinsMarkers", "CargoTomlOutdated"}
      [] phase = "cmd_runner" -> {"CmdRunnerBuild"}
      [] phase = "format_version" -> {"FormatTooOld", "FormatTooNew"}
      [] phase = "info" -> {"EmptyName", "NameChar", "EmptyDir", "DirChar", "EmptyHint",
                            "DuplicateName", "OpenFailed", "ReadFailed", "MissingMain",
                            "MissingTodo", "UnexpectedTest"}
      [] phase = "exercises_files" -> FilesErrors
      [] phase = "unsolved" -> {"Unsolved"}
      [] phase = "solutions" -> FilesErrors \cup
                                {"SolutionMissing", "SolutionRunFailed", "RunSolutionErr",
                                 "SolutionPanic", "ScopePanic", "FilesPanic",
                                 "RustfmtFailedToRun", "NotFormatted"}

Started(phase) == \E k \in 1..Len(phases) : phases[k] = phase

\* C1: the phases of check() start in the fixed order parse, build
\* descriptor, (command runner,) format version, naming and content,
\* exercises directory, unsolved, solutions; every phase that was followed
\* by another one passed; once a phase has failed nothing else is started
\* (in particular no task of a later phase is ever spawned) and the result
\* of check() is that phase's error; and check() succeeds only when every
\* phase was started and passed.
C1_PhasesInOrderStopAtFirstFailure ==
    /\ IsPrefix(phases, PhaseOrder)
    /\ Len(returned) \in {Len(phases) - 1, Len(phases)}
    /\ \A k \in 1..Len(returned) :
        /\ k < Len(phases) => returned[k] = OkResult
        /\ returned[k].kind \in PhaseErrors(phases[k]) \cup {"Ok"}
    /\ ~Started("unsolved") => \A i \in Records : ex_task[i] = "none" /\ ex_runs[i] = 0
    /\ ~Started("solutions") =>
            /\ \A i \in Records : sol_task[i] = "none" /\ sol_runs[i] = 0
            /\ files_task = "none" /\ fmt_status = "None"
    /\ info_result # NoResult => Started("info")
    /\ unsolved_result # NoResult => Started("unsolved")
    /\ solutions_result # NoResult => Started("solutions")
    /\ (Len(returned) >= 4 /\ returned[4] = OkResult) =>
            info_file.format_version = CURRENT_FORMAT_VERSION
    /\ Len(returned) >= 5 => returned[5] = info_result
    /\ Len(returned) >= 7 => returned[7] = unsolved_result
    /\ Len(returned) >= 8 => returned[8] = solutions_result
    /\ (result # NoResult) = (pc = "done")
    /\ (result # NoResult) = (Len(returned) = Len(phases))
    /\ result # NoResult => result = Last(returned)
    /\ result = OkResult => phases = PhaseOrder

\* C1 witness: check() failed in the naming and content phase of a manifest
\* of several records, and no task was ever spawned.
C1_Witness ==
    /\ IsErr(result)
    /\ result = info_result
    /\ N >= 2
    /\ Last(phases) = "info"
    /\ Len(returned) = 5

\* C1 witness of the success: every phase was started and passed.
C1_WitnessSuccess ==
    /\ result = OkResult
    /\ Len(returned) = 8
    /\ N >= 2

ExFailed(i) == ex_out[i] \in {"OkTrue", "Err"}

\* C2: once check_exercises_unsolved has returned, it has failed exactly
\* when some record that is not skipped had a run that returned Ok(true)
\* or an error, and has passed exactly when every such record's run
\* returned Ok(false), whatever the order in which the tasks ran.
C2_UnsolvedVerdict ==
    unsolved_result # NoResult =>
        /\ IsErr(unsolved_result) <=>
                \E i \in Records : ~Exercises[i].skip_check_unsolved /\ ExFailed(i)
        /\ unsolved_result = OkResult <=>
                \A i \in Records :
                    ~Exercises[i].skip_check_unsolved => ex_out[i] = "OkFalse"

\* C2 witness: the phase failed after two tasks failed, the task of the
\* later record writing its block first.
C2_Witness ==
    /\ IsErr(unsolved_result)
    /\ Len(stderr) = 8
    /\ stderr[1].by > stderr[5].by
    /\ \E i \in Records : ex_out[i] = "OkFalse"

WroteToStderr(i) == \E k \in 1..Len(stderr) : stderr[k].by = i

\* C3: a record with skip_check_unsolved never gets a task, a run or a
\* write to stderr and the flag is only set for a failed run of a record
\* that is not skipped; a record that is not skipped and whose run returned
\* Ok(true) is reported as already solved, sets the flag and fails the
\* phase.
C3_SkipCheckUnsolved ==
    /\ \A i \in Records :
        Exercises[i].skip_check_unsolved =>
            /\ ex_task[i] = "none"
            /\ ex_runs[i] = 0
            /\ ex_out[i] = "None"
            /\ ~WroteToStderr(i)
    /\ error_occurred =>
            \E i \in Records : ~Exercises[i].skip_check_unsolved /\ ExFailed(i)
    /\ \A i \in Records :
        (ex_out[i] = "OkTrue" /\ ex_task[i] = "done") =>
            /\ error_occurred
            /\ \E k \in 1..Len(stderr) :
                    stderr[k] = Written(i, "message", "Already solved!", NoName)
            /\ unsolved_result # NoResult => IsErr(unsolved_result)

\* C3 witness: the phase has failed on a record that is not skipped and
\* already solved, next to a skipped record.
C3_Witness ==
    /\ IsErr(unsolved_result)
    /\ \E i, j \in Records :
        /\ Exercises[i].skip_check_unsolved
        /\ ~Exercises[j].skip_check_unsolved
        /\ ex_out[j] = "OkTrue"

\* C3 witness of the other case: the phase has passed with a skipped
\* record and a record that is not skipped.
C3_WitnessSkippedPasses ==
    /\ unsolved_result = OkResult
    /\ \E i, j \in Records :
        Exercises[i].skip_check_unsolved /\ ~Exercises[j].skip_check_unsolved

\* C4: a record whose solution file does not exist ends MissingRequired
\* when require_solutions holds and MissingOptional when it does not,
\* without a call of run_solution; a MissingRequired record makes the phase
\* fail; a MissingOptional record is never the one the error names, and the
\* phase passes when all records are MissingOptional or Success and the
\* two final checks pass.
C4_MissingSolution ==
    /\ \A i \in Records :
        /\ sol_exists[i] = {FALSE} =>
                /\ sol_task[i] = IF require_solutions THEN "MissingRequired"
                                 ELSE "MissingOptional"
                /\ sol_runs[i] = 0
        /\ sol_task[i] \in {"MissingRequired", "MissingOptional"} =>
                sol_exists[i] = {FALSE}
        /\ (sol_task[i] = "MissingRequired" /\ solutions_result # NoResult) =>
                IsErr(solutions_result)
        /\ (sol_task[i] = "MissingOptional" /\ IsErr(solutions_result)) =>
                solutions_result.name # Exercises[i].name
    /\ ( /\ solutions_result # NoResult
         /\ \A i \in Records : sol_task[i] \in {"MissingOptional", "Success"}
         /\ fmt_status = "Success"
         /\ files_result = OkResult ) => solutions_result = OkResult

\* C4 witness: the phase has passed with a record whose solution is
\* missing and a record whose solution ran.
C4_Witness ==
    /\ solutions_result = OkResult
    /\ \E i, j \in Records : sol_task[i] = "MissingOptional" /\ sol_task[j] = "Success"

FirstFailed == Min({i \in Records : sol_task[i] \in SolFailed})

\* C5: when check_solutions has returned and some record's outcome is
\* MissingRequired, RunFailure, a runner error or a panic, the error it
\* returned is the one of the first such record in manifest order.
C5_FirstFailureInManifestOrder ==
    (solutions_result # NoResult /\ \E i \in Records : sol_task[i] \in SolFailed) =>
        solutions_result = SolError(sol_task[FirstFailed], Exercises[FirstFailed].name)

\* C6: when check_exercises_unsolved has returned every task it spawned has
\* ended; when check_solutions has returned every solution task and the
\* task of the solutions directory have ended; and no exercise task is
\* running while a solution task or the directory task exists.
C6_NoTaskOutlivesItsPhase ==
    /\ unsolved_result # NoResult => \A i \in Records : ex_task[i] \in ExFinished
    /\ solutions_result # NoResult =>
            /\ \A i \in Records : sol_task[i] \in SolEnded
            /\ files_task \in {"none", "done"}
    /\ (\E i \in Records : ex_task[i] \notin ExFinished) =>
            /\ \A j \in Records : sol_task[j] = "none"
            /\ files_task = "none"
    /\ result # NoResult =>
            /\ \A i \in Records : ex_task[i] \in ExFinished
            /\ \A i \in Records : sol_task[i] \in SolEnded \cup {"none"}
            /\ files_task \in {"none", "done"}

\* C6 witness: check_solutions returned the failure of the first record
\* although the solutions of later records were run.
C6_Witness ==
    /\ IsErr(solutions_result)
    /\ join_i = 1
    /\ N >= 2
    /\ \A i \in Records : i > 1 => sol_runs[i] = 1

\* C6 witness of the other early return: rustfmt failed and the directory
\* task had not ended when it did.
C6_WitnessFmt ==
    /\ solutions_result # NoResult
    /\ IsErr(fmt_error(fmt_status))
    /\ finished_first = "fmt"
    /\ files_task = "done"

InAsciiClass(c) == c \in {"a", "A", "b", "c", "d", "h", "5", "_"}
Allowed(c) == is_alphanumeric(c) \/ c = "_"
NamesAndDirs(exercise_info) == {exercise_info.name} \cup exercise_info.dir
Chars(s) == {s[k] : k \in 1..Len(s)}

\* C7 as stated: a manifest that check_info_file_exercises accepts has no
\* name or dir with a character outside [A-Za-z0-9_], and a record is only
\* rejected for a character when its name or dir has one outside that class.
C7_OnlyAsciiAccepted ==
    /\ info_result = OkResult =>
        \A i \in Records : \A s \in NamesAndDirs(Exercises[i]) :
            \A c \in Chars(s) : InAsciiClass(c)
    /\ info_result.kind \in {"NameChar", "DirChar"} =>
        \E s \in NamesAndDirs(Exercises[info_i]) : \E c \in Chars(s) : ~InAsciiClass(c)

\* C7 as amended: a manifest that is accepted has no name or dir with a
\* character that is neither alphanumeric (in the sense of Unicode) nor an
\* underscore; an error about a character names the first such character
\* of the name or dir of the record it stopped at; and a record whose name
\* and dir hold only such characters is never rejected for a character.
C7_OnlyAlphanumericOrUnderscoreAccepted ==
    /\ info_result = OkResult =>
        \A i \in Records : \A s \in NamesAndDirs(Exercises[i]) :
            \A c \in Chars(s) : Allowed(c)
    /\ info_result.kind = "NameChar" =>
        LET name == Exercises[info_i].name
        IN  /\ info_result.name = name
            /\ \E k \in 1..Len(name) :
                /\ name[k] = info_result.ch
                /\ ~Allowed(name[k])
                /\ \A j \in 1..(k - 1) : Allowed(name[j])
    /\ info_result.kind = "DirChar" =>
        /\ info_result.dir = Exercises[info_i].dir
        /\ \E d \in Exercises[info_i].dir : \E k \in 1..Len(d) :
                /\ d[k] = info_result.ch
                /\ ~Allowed(d[k])
                /\ \A j \in 1..(k - 1) : Allowed(d[j])
    /\ info_result.kind \in {"NameChar", "DirChar"} =>
        \E s \in NamesAndDirs(Exercises[info_i]) : \E c \in Chars(s) : ~Allowed(c)

\* C7 witness: a manifest with a non-ASCII alphanumeric name and a name
\* with an underscore has been accepted.
C7_Witness ==
    /\ info_result = OkResult
    /\ \E i, j \in Records :
        /\ Exercises[i].name = <<"U+00E9">>
        /\ "_" \in Chars(Exercises[j].name)

C8_WitnessRejected ==
    /\ info_result.kind = "DuplicateName"
    /\ info_i = N
    /\ N >= 2
    /\ Exercises[1].name = Exercises[N].name

\* C9: when every solution task was joined without a failure, the phase
\* passes exactly when rustfmt succeeded and the check of the solutions
\* directory passed, whichever of the two ended first.
C9_BothFinalChecksMustPass ==
    (solutions_result # NoResult /\ join_i > N) =>
        /\ finished_first \in {"fmt", "files"}
        /\ solutions_result = OkResult <=>
                (fmt_status = "Success" /\ files_result = OkResult)

\* C9 witness: the phase failed on the directory check alone, which had
\* ended before rustfmt did.
C9_Witness ==
    /\ solutions_result # NoResult
    /\ join_i > N
    /\ finished_first = "files"
    /\ fmt_status = "Success"
    /\ IsErr(files_result)
    /\ solutions_result = files_result

\* C9 witness of the other order: the phase passed, rustfmt ending first.
C9_WitnessFmtFirst ==
    /\ solutions_result = OkResult
    /\ finished_first = "fmt"
    /\ sol_paths # {}

\* The state of a solution check in the state machine of the
\* specification; a panic of the task counts as an internal error.
SolState(s) == IF s \in {"Err", "Panic"} THEN "InternalError" ELSE s
SolTerminal == {"MissingOptional", "MissingRequired", "Success", "RunFailure", "InternalError"}
SolStep(from, to) ==
    \/ from = "none" /\ to = "NotStarted"
    \/ from = "NotStarted" /\ to \in {"MissingOptional", "MissingRequired", "Running"}
    \/ from = "Running" /\ to \in {"Success", "RunFailure", "InternalError"}

C10_EveryRecordHasATask ==
    /\ pc \in {"solutions_join", "fmt", "files_join", "solutions_exit"} =>
            \A i \in Records : sol_task[i] # "none"
    /\ solutions_result # NoResult =>
            \A i \in Records : SolState(sol_task[i]) \in SolTerminal
    /\ \A i \in Records :
            sol_runs[i] = IF SolState(sol_task[i]) \in
                                {"Running", "Success", "RunFailure", "InternalError"}
                          THEN 1 ELSE 0

C10_StepsOfTheStateMachine ==
    \A i \in DOMAIN sol_task \cap DOMAIN sol_task' :
        sol_task'[i] # sol_task[i] => SolStep(SolState(sol_task[i]), SolState(sol_task'[i]))

\* C10: once the spawn loop is over every record, skipped in the unsolved
\* phase or not, has a solution task; a task only moves NotStarted ->
\* MissingOptional | MissingRequired | Running and Running -> Success |
\* RunFailure | InternalError, so that a terminal state is never left and
\* run_solution was called once exactly by the tasks that reached Running;
\* and every task is in a terminal state when check_solutions returns.
C10_SolutionStateMachine ==
    [](C10_EveryRecordHasATask) /\ [][C10_StepsOfTheStateMachine]_vars

\* C10 witness: check_solutions has returned and the solution of a record
\* with skip_check_unsolved was run and succeeded, next to a record whose
\* solution is missing.
C10_Witness ==
    /\ solutions_result # NoResult
    /\ \E i, j \in Records :
        /\ Exercises[i].skip_check_unsolved
        /\ sol_task[i] = "Success"
        /\ sol_task[j] \in {"MissingOptional", "MissingRequired"}

\* The exercises an error names, and the exercises the blocks written to
\* stderr name.
NamedIn(r) == IF r.name = NoName THEN {} ELSE {r.name}
NamedOnStderr == {stderr[k].name : k \in {j \in 1..Len(stderr) : stderr[j].part = "name"}}
BlocksOf(i) == {k \in 1..Len(stderr) : stderr[k].by = i /\ stderr[k].part = "message"}

\* C11 as stated: when check_exercises_unsolved fails, the error it returns
\* is one combined message that names every record that is not skipped and
\* whose run returned Ok(true), and names no record whose run returned
\* Ok(false).
C11_CombinedMessageNamesEverySolved ==
    IsErr(unsolved_result) =>
        \A i \in Records :
            /\ (~Exercises[i].skip_check_unsolved /\ ex_out[i] = "OkTrue") =>
                    Exercises[i].name \in NamedIn(unsolved_result)
            /\ ex_out[i] = "OkFalse" => Exercises[i].name \notin NamedIn(unsolved_result)

\* C11: once check_exercises_unsolved has returned, the error it returned,
\* if any, names no exercise; every record whose run returned Ok(true) or
\* an error has exactly one block on stderr, with its message and its
\* name; and no record whose run returned Ok(false), or that had no run,
\* is named on stderr.
C11_EverySolvedNamedOnStderr ==
    unsolved_result # NoResult =>
        /\ NamedIn(unsolved_result) = {}
        /\ \A i \in Records :
            /\ ex_out[i] = "OkTrue" =>
                    /\ Cardinality(BlocksOf(i)) = 1
                    /\ \A k \in BlocksOf(i) : stderr[k].text = "Already solved!"
                    /\ Exercises[i].name \in NamedOnStderr
            /\ ex_out[i] = "Err" =>
                    /\ Cardinality(BlocksOf(i)) = 1
                    /\ \A k \in BlocksOf(i) : stderr[k].text = "e.to_string()"
                    /\ Exercises[i].name \in NamedOnStderr
            /\ ex_out[i] \in {"OkFalse", "None"} =>
                    /\ BlocksOf(i) = {}
                    /\ Exercises[i].name \notin NamedOnStderr
        /\ IsErr(unsolved_result) <=> NamedOnStderr # {}

\* C11 witness: the phase failed with two records already solved and one
\* that failed to compile as it should.
C11_Witness ==
    /\ IsErr(unsolved_result)
    /\ \E i, j, k \in Records :
        /\ i # j
        /\ ex_out[i] = "OkTrue"
        /\ ex_out[j] = "OkTrue"
        /\ ex_out[k] = "OkFalse"
        /\ {Exercises[i].name, Exercises[j].name} \subseteq NamedOnStderr

\* The file of a record could be read and holds what the content checks ask
\* of it: both markers, and no test marker unless the record has test.
HasMarkers(file, exercise_info) ==
    /\ file.open /\ file.read
    /\ {"fn main()", "// TODO"} \subseteq file.markers
    /\ exercise_info.test \/ "#[test]" \notin file.markers

\* C12: file_buf is empty at the start of every iteration of the loop of
\* check_info_file_exercises, so the verdict on a record's content is a
\* function of that record's own file: a file that was read and has both
\* markers (and no test marker unless test is set) lets the loop go on to
\* the next record; a file without "fn main()", without "// TODO", or with
\* an unexpected "#[test]" makes validation fail at that very record with
\* the matching error; and validation passes only if every record's file
\* was read and has its markers.
C12_ContentValidation ==
    /\ info_result = NoResult => file_buf = {}
    /\ info_result = OkResult =>
            \A i \in 1..Len(info_file.exercises) :
                /\ i \in DOMAIN file_reads
                /\ HasMarkers(file_reads[i], info_file.exercises[i])
    /\ \A i \in DOMAIN file_reads :
        LET file == file_reads[i]
            e == info_file.exercises[i]
            fails(kind) == info_result = Res(kind, e.name, e.dir, "") /\ info_i = i
        IN  /\ HasMarkers(file, e) => info_i > i \/ info_result = OkResult
            /\ (file.open /\ file.read) =>
                /\ "fn main()" \notin file.markers => fails("MissingMain")
                /\ ("fn main()" \in file.markers /\ "// TODO" \notin file.markers) =>
                        fails("MissingTodo")
                /\ ({"fn main()", "// TODO"} \subseteq file.markers
                        /\ ~e.test /\ "#[test]" \in file.markers) =>
                        fails("UnexpectedTest")

\* C12 witness: the second record's file lacks the guidance marker that the
\* first record's file has, and validation failed at the second record.
C12_Witness ==
    /\ info_result.kind = "MissingTodo"
    /\ info_i = 2
    /\ HasMarkers(file_reads[1], info_file.exercises[1])
    /\ "fn main()" \in file_reads[2].markers

\* What a directory tree holds, read off the tree itself: its files at
\* both levels, those of them that are neither README.md nor allowed, the
\* entries of its subdirectories that are not files, and whether the root
\* and every subdirectory can be opened.
TreeFiles(d) ==
    {e \in d.entries : e.is_file}
        \cup UNION {{f \in sub.entries : f.is_file} : sub \in {e \in d.entries : ~e.is_file}}
StrayFiles(d, allowed) ==
    {f \in TreeFiles(d) : f.path.name # README /\ f.path \notin allowed}
NestedEntries(d) ==
    UNION {{x \in sub.entries : ~x.is_file} : sub \in {e \in d.entries : ~e.is_file}}
Openable(d) == d.readable /\ \A e \in d.entries : e.readable

\* C13 as stated: check_unexpected_files passes for a root that holds no
\* stray file and no second level; it fails with the unexpected-file error
\* whenever a file at either level is neither README.md nor allowed, and
\* with the unexpected-nesting error whenever an entry of a first-level
\* subdirectory is not a file.
C13_ErrorKindFixedByTheTree ==
    \A d \in dir_read :
        Openable(d) =>
            /\ (StrayFiles(d, dir_allowed) = {} /\ NestedEntries(d) = {}) =>
                    dir_result = OkResult
            /\ StrayFiles(d, dir_allowed) # {} => dir_result.kind = "UnexpectedFile"
            /\ NestedEntries(d) # {} => dir_result.kind = "UnexpectedNesting"

\* C13: for a root it can open, check_unexpected_files passes exactly when
\* no file at either level is stray and no entry of a first-level
\* subdirectory is a directory; otherwise it fails with the unexpected-file
\* error of one of the stray files or with the unexpected-nesting error of
\* one of the nested entries, so with the former when nothing is nested
\* and with the latter when no file is stray.  A root or subdirectory it
\* cannot open never makes it pass.
C13_FailsOnAnOffendingEntry ==
    \A d \in dir_read :
        LET stray == StrayFiles(d, dir_allowed)
            nested == NestedEntries(d)
        IN  /\ dir_result # NoResult
            /\ ~Openable(d) => IsErr(dir_result)
            /\ Openable(d) =>
                /\ dir_result = OkResult <=> (stray = {} /\ nested = {})
                /\ dir_result.kind \in {"Ok", "UnexpectedFile", "UnexpectedNesting"}
                /\ dir_result.kind = "UnexpectedFile" =>
                        \E f \in stray :
                            dir_result = Res("UnexpectedFile", f.path.name, f.path.dir, "")
                /\ dir_result.kind = "UnexpectedNesting" =>
                        \E x \in nested :
                            dir_result = Res("UnexpectedNesting", x.path.name, x.path.dir, "")

\* C13 witness: the root holds README.md and allowed files at both levels
\* and one stray file inside its subdirectory, and the check failed on it.
C13_Witness ==
    \E d \in dir_read :
        /\ dir_result = Res("UnexpectedFile", <<"y">>, {<<"d">>}, "")
        /\ Cardinality(dir_allowed) = 2
        /\ dir_allowed \subseteq {f.path : f \in TreeFiles(d)}
        /\ NestedEntries(d) = {}
        /\ Cardinality(StrayFiles(d, dir_allowed)) = 1

\* C13 witness of the nesting error: nothing is stray, a subdirectory holds
\* a directory.
C13_WitnessNesting ==
    \E d \in dir_read :
        /\ dir_result.kind = "UnexpectedNesting"
        /\ StrayFiles(d, dir_allowed) = {}
        /\ dir_allowed # {}

\* C13 witness of the pass: files at both levels, all README.md or allowed.
C13_WitnessPass ==
    \E d \in dir_read :
        /\ dir_result = OkResult
        /\ Cardinality(TreeFiles(d)) = 4

\* The join loop has met a failed outcome, at record join_i, and returned
\* its error from the closure.
JoinFailed ==
    /\ join_i \in Records
    /\ join_i \in joined
    /\ sol_task[join_i] \in SolFailed
    /\ closure_result # NoResult

\* C14: once the join loop has met the first failed outcome, no output of
\* a later record is written to stderr, neither the task of the solutions
\* directory nor rustfmt is started, no later handle is inspected, and the
\* error check_solutions returns, after every task has ended, is the one
\* of that first failed record whatever the later tasks did.
C14_FailureLockedIn ==
    JoinFailed =>
        /\ \A k \in 1..Len(stderr) :
                stderr[k].part = "output" =>
                    /\ stderr[k].name = Exercises[join_i].name
                    /\ sol_task[join_i] = "RunFailure"
        /\ files_task = "none"
        /\ fmt_status = "None"
        /\ joined = 1..join_i
        /\ closure_result = SolError(sol_task[join_i], Exercises[join_i].name)
        /\ solutions_result # NoResult =>
                /\ \A i \in Records : sol_task[i] \in SolEnded
                /\ solutions_result = closure_result

\* C15: no runner is invoked twice; when check_exercises_unsolved has
\* returned, run_exercise was invoked exactly once for every record that is
\* not skipped, whatever the other tasks returned; when check_solutions has
\* returned, every record's task has looked for the solution file and
\* run_solution was invoked exactly once for every record whose file
\* exists, whatever the join loop met.
C15_NoCancellation ==
    /\ \A i \in Records : ex_runs[i] <= 1 /\ sol_runs[i] <= 1
    /\ unsolved_result # NoResult =>
            \A i \in Records : ~Exercises[i].skip_check_unsolved => ex_runs[i] = 1
    /\ solutions_result # NoResult =>
            \A i \in Records :
                /\ sol_exists[i] # {}
                /\ sol_exists[i] = {TRUE} => sol_runs[i] = 1

\* C15 witness: the unsolved phase failed on one record and the runner was
\* invoked for the two others all the same.
C15_Witness ==
    /\ IsErr(unsolved_result)
    /\ N = 3
    /\ \A i \in Records : ex_runs[i] = 1
    /\ \E i \in Records : ex_out[i] = "OkTrue"
    /\ \E i \in Records : ex_out[i] = "OkFalse"

\* C15 witness of the solutions: the join loop failed on the first record
\* and the solutions of the two others were run all the same.
C15_WitnessSolutions ==
    /\ IsErr(solutions_result)
    /\ N = 3
    /\ join_i = 1
    /\ sol_task[1] = "MissingRequired"
    /\ sol_runs[2] = 1 /\ sol_runs[3] = 1

ExHung == \E i \in 1..MaxLiveRecords : Exercise(i) \in hung
SolHung == \E i \in 1..MaxLiveRecords : Solution(i) \in hung

\* A phase whose runner hangs has not returned: its task is still inside
\* the runner and the main thread is still inside the phase.
HungPhaseHasNotReturned ==
    /\ \A i \in Records :
        /\ Exercise(i) \in hung =>
                /\ ex_task[i] = "running"
                /\ unsolved_result = NoResult
                /\ pc = "unsolved"
        /\ Solution(i) \in hung =>
                /\ sol_task[i] = "Running"
                /\ solutions_result = NoResult
                /\ pc \in {"solutions", "solutions_join", "solutions_exit"}
    /\ hung # {} => result = NoResult

\* C16: with threads that are scheduled fairly, each concurrent phase that
\* has started eventually returns its verdict unless one of its runner
\* invocations never returns; an invocation that never returns stays so for
\* ever, and as long as it does its phase has not returned and neither has
\* check(), whatever the other tasks of the phase did.
C16_PhaseReturnsUnlessARunnerHangs ==
    /\ (Started("unsolved") ~> (unsolved_result # NoResult \/ ExHung))
    /\ (Started("solutions") ~> (solutions_result # NoResult \/ SolHung))
    /\ []HungPhaseHasNotReturned
    /\ [][hung \subseteq hung']_vars

\* C16 witness: a runner of the unsolved phase hangs after another task of
\* the phase has failed, written its block and set the flag; every other
\* task has ended and the phase is still waiting.
C16_Witness ==
    /\ pc = "unsolved"
    /\ ex_i > N
    /\ error_occurred
    /\ \E i, j \in Records :
        /\ Exercise(i) \in hung
        /\ ex_out[j] = "OkTrue"
        /\ \A k \in Records \ {i} : ex_task[k] \in ExFinished

\* C16 witness of the solutions: the join loop has failed on the first
\* record and the scope is waiting for the hung runner of a later one.
C16_WitnessSolutions ==
    /\ pc = "solutions_exit"
    /\ join_i = 1
    /\ IsErr(closure_result)
    /\ Solution(2) \in hung
    /\ solutions_result = NoResult

\* The solution paths of the records whose task ended with Success.
SuccessPaths == {sol_path(Exercises[i]) : i \in {j \in Records : sol_task[j] = "Success"}}

\* C17: from the moment the task of the solutions directory is spawned,
\* the set given to it and the arguments given to rustfmt hold exactly the
\* solution paths of the records whose outcome was Success, each once; that
\* is the set check_unexpected_files is called with, and what rustfmt was
\* run on.
C17_PathsAreTheSuccessfulSolutions ==
    files_task # "none" =>
        /\ sol_paths = SuccessPaths
        /\ {fmt_cmd[k] : k \in 1..Len(fmt_cmd)} = SuccessPaths
        /\ Len(fmt_cmd) = Cardinality(SuccessPaths)
        /\ files_task = "done" => dir_allowed = SuccessPaths
        /\ \A i \in Records : sol_task[i] \in {"Success", "MissingOptional"}

\* C17 witness: rustfmt and the directory check have both run, over the
\* paths of two successful solutions, a third record having no solution.
C17_Witness ==
    /\ files_task = "done"
    /\ fmt_status # "None"
    /\ Cardinality(sol_paths) = 2
    /\ \E i \in Records : sol_task[i] = "MissingOptional"

\* The naming checks in the order the claim gives them, and whether a
\* record violates one of them, read off the manifest; earlier holds the
\* names of the records before it.
NamingOrder == <<"EmptyName", "NameChar", "EmptyDir", "DirChar", "EmptyHint", "DuplicateName">>
NamingKinds == {NamingOrder[k] : k \in 1..Len(NamingOrder)}
Violates(e, earlier, kind) ==
    CASE kind = "EmptyName" -> Len(e.name) = 0
      [] kind = "NameChar" -> \E k \in 1..Len(e.name) : ~Allowed(e.name[k])
      [] kind = "EmptyDir" -> \E d \in e.dir : Len(d) = 0
      [] kind = "DirChar" -> \E d \in e.dir : \E k \in 1..Len(d) : ~Allowed(d[k])
      [] kind = "EmptyHint" -> \A k \in 1..Len(e.hint) : is_whitespace(e.hint[k])
      [] kind = "DuplicateName" -> e.name \in earlier
Earlier(i) == {Exercises[j].name : j \in 1..(i - 1)}
\* The first check in that order that record i violates, "Ok" if none.
NamingVerdict(i) ==
    LET first[k \in 1..(Len(NamingOrder) + 1)] ==
            IF k > Len(NamingOrder) THEN "Ok"
            ELSE IF Violates(Exercises[i], Earlier(i), NamingOrder[k]) THEN NamingOrder[k]
            ELSE first[k + 1]
    IN  first[1]

\* C18: check_info_file_exercises goes through the records in manifest
\* order and stops at the first check that fails.  Every record before the
\* one it is at violates no naming check; if the record it is at violates
\* one, the error returned is the first violated check of that record in
\* the order name emptiness, name characters, dir emptiness, dir
\* characters, hint, duplicate, and the record's file is not even read; and
\* no later record is examined: no file of a later record is read and no
\* later name or path is recorded.
C18_NamingFailFast ==
    /\ info_i \in 1..(N + 1)
    /\ \A j \in 1..(info_i - 1) : NamingVerdict(j) = "Ok" /\ j \in DOMAIN file_reads
    /\ info_result.kind \in NamingKinds =>
            /\ info_i \in Records
            /\ info_result.kind = NamingVerdict(info_i)
            /\ info_i \notin DOMAIN file_reads
    /\ (info_i \in Records /\ NamingVerdict(info_i) # "Ok" /\ info_result # NoResult) =>
            info_result.kind = NamingVerdict(info_i)
    /\ info_result = OkResult => info_i = N + 1
    /\ DOMAIN file_reads \subseteq 1..info_i
    /\ names \subseteq {Exercises[j].name : j \in Records \cap 1..info_i} \ {<<>>}
    /\ paths = {path(Exercises[j]) : j \in 1..(info_i - 1)}

\* C18 witness: the second record has a forbidden character in its dir, a
\* blank hint and the name of the first record; the error is the one about
\* the dir, and the first record passed.
C18_Witness ==
    /\ N = 2
    /\ info_i = 2
    /\ info_result.kind = "DirChar"
    /\ is_empty(trim(Exercises[2].hint))
    /\ Exercises[2].name = Exercises[1].name

\* C18 witness of the record order: both records violate a check and the
\* error is the one of the first record.
C18_WitnessFirstRecord ==
    /\ N = 2
    /\ info_i = 1
    /\ info_result.kind = "EmptyHint"
    /\ is_empty(Exercises[2].name)
    /\ file_reads = <<>>

OutputOnStderr == {stderr[k].name : k \in {j \in 1..Len(stderr) : stderr[j].part = "output"}}

\* C19: when check_solutions has returned after the join loop met a failed
\* run, the three kinds of fault are told apart.  A run that returned false
\* is reported as the run failure of its exercise, and is the only outcome
\* whose captured output is on stderr; an error of the runner is returned
\* as that error; a panic of the task is reported as the panic of that
\* exercise; and check_solutions never passes when some record's run
\* failed, returned an error or panicked.
C19_FaultKindsStayDistinct ==
    solutions_result # NoResult =>
        /\ JoinFailed =>
            LET outcome == sol_task[join_i]
                name == Exercises[join_i].name
            IN  /\ outcome = "RunFailure" =>
                        /\ solutions_result = Res("SolutionRunFailed", name, NoDir, "")
                        /\ OutputOnStderr = {name}
                /\ outcome = "Err" =>
                        /\ solutions_result = Res("RunSolutionErr", name, NoDir, "")
                        /\ OutputOnStderr = {}
                /\ outcome = "Panic" =>
                        /\ solutions_result = Res("SolutionPanic", name, NoDir, "")
                        /\ OutputOnStderr = {}
                /\ outcome = "MissingRequired" => OutputOnStderr = {}
        /\ solutions_result = OkResult =>
                \A i \in Records : sol_task[i] \notin {"RunFailure", "Err", "Panic"}

BlockParts == <<"message", "problem", "name", "separator">>
Writing == {"write1", "write2", "write3", "write4", "store"}

\* stderr is a sequence of whole blocks, each written by one task in the
\* order message, "Problem with the exercise", name, separator and naming
\* that task's exercise, followed at most by the part of a block that the
\* holder of the lock has written so far; a task that is writing, or about
\* to store the flag, holds the lock; and a task that has ended after a
\* failed run has set the flag.
BlocksAreWhole ==
    /\ \A k \in 1..Len(stderr) :
        stderr[k].by # 0 =>
            LET first == k - ((k - 1) % 4)
            IN  /\ stderr[k].part = BlockParts[k - first + 1]
                /\ stderr[k].by = stderr[first].by
                /\ stderr[k].by \in Records
                /\ stderr[k].part = "name" => stderr[k].name = Exercises[stderr[k].by].name
    /\ \A i \in Records :
        /\ ex_task[i] \in Writing => stderr_lock = i
        /\ (ex_task[i] = "done" /\ ExFailed(i)) => error_occurred
    /\ stderr_lock # 0 => stderr_lock \in Records /\ ex_task[stderr_lock] \in Writing
    /\ (Len(stderr) % 4 # 0 /\ Last(stderr).by # 0) =>
            /\ stderr_lock = Last(stderr).by
            /\ ex_task[stderr_lock] = <<"write2", "write3", "write4">>[Len(stderr) % 4]
    /\ (Len(stderr) % 4 = 0 /\ stderr_lock # 0) => ex_task[stderr_lock] \in {"write1", "store"}

\* Every write of a task to stderr and every store to the flag is made by
\* the holder of the lock, and the flag never goes back to false.
WritesAndStoresUnderLock ==
    /\ error_occurred => error_occurred'
    /\ (error_occurred' /\ ~error_occurred) =>
            stderr_lock # 0 /\ ex_task[stderr_lock] = "store"
    /\ \A i \in Records :
        (ex_task[i] = "store" /\ ex_task'[i] = "done") =>
            stderr_lock = i /\ error_occurred' /\ stderr_lock' = 0
    /\ (Len(stderr') > Len(stderr) /\ Last(stderr').by # 0) =>
            /\ stderr_lock = Last(stderr').by
            /\ stderr_lock' = stderr_lock
            /\ stderr' = Append(stderr, Last(stderr'))

\* C20: in every interleaving of the tasks of check_exercises_unsolved, a
\* failing task writes its block (message, name, separator) and stores the
\* flag while it holds the lock of stderr: the blocks of two tasks are
\* never interleaved, each block names the exercise of the task that wrote
\* it, and the flag, once true, is never reset.
C20_BlocksUnderTheLock == []BlocksAreWhole /\ [][WritesAndStoresUnderLock]_vars

\* C20 witness: two tasks have failed; one has written its whole block and
\* set the flag, the other holds the lock in the middle of its block, and
\* a third is waiting for the lock.
C20_Witness ==
    /\ error_occurred
    /\ Len(stderr) = 6
    /\ stderr[1].by # stderr[5].by
    /\ \E i \in Records : ex_task[i] = "error"

====
